---- MODULE Spec2Model ----
(***************************************************************************)
(* pomyu: a pomodoro timer (yew component `App`, src/src/main.rs).         *)
(*                                                                         *)
(* Every duration and every wall-clock reading is a whole number of        *)
(* milliseconds: js Date.getTime() yields integral milliseconds, progress  *)
(* is only ever built by Duration::from_millis and by adding whole         *)
(* milliseconds, and period lengths are whole seconds.  For such values    *)
(* the f64 arithmetic of App::notify is exact where it matters (the sign   *)
(* of minutes_left, the floor of the quotient by 5 minutes, the truncated  *)
(* minute count), so it is modelled with integers scaled to milliseconds.  *)
(*                                                                         *)
(* Option<T> is modelled as a sequence: <<>> is None, <<v>> is Some(v).    *)
(* Vec indices are 0-based in the source; periods[i + 1] is element i.     *)
(*                                                                         *)
(* App.messages (a log of &'static str that is pushed to and never read)   *)
(* is represented by its most recent entry only, in `last`.                *)
(***************************************************************************)
EXTENDS Integers, Sequences, FiniteSets, TLC

VARIABLES
    interval,        \* App.interval: Option<(Interval, tick_count, tick_start)>
    progress,        \* App.progress: Option<Duration>, in ms
    periods,         \* App.periods: Vec<Period>
    current_period,  \* App.current_period: usize
    storage,         \* the browser's local storage as load/save see it
    timers,          \* live browser intervals (gloo Interval handles not dropped)
    faulted,         \* TRUE once a handler has panicked
    now,             \* the latest wall-clock reading (get_utc_millis)
    last,            \* the message handled last
    before,          \* App.progress as it was when that handler began
    emitted,         \* the notifications that handler created, in order
    notified,        \* boundary indexes notified in the current session
    sessionTicks,    \* ticks processed in the current session
    segStart,        \* wall clock when the latest Start or Resume was handled
    segTicks,        \* ticks processed since then, while the timer exists
    ran              \* wall-clock time of the session's closed run segments

vars == <<interval, progress, periods, current_period, storage, timers, faulted,
          now, last, before, emitted, notified, sessionTicks, segStart, segTicks,
          ran>>

None == <<>>
Some(v) == <<v>>

Max(a, b) == IF a >= b THEN a ELSE b

------------------------------------------------------------------------------
(* Program constants *)

TICK_INTERVAL == 1000

notification_period_len == 5

SecsPerMinute == 60

MillisPerSec == 1000

MillisPerMinute == SecsPerMinute * MillisPerSec

\* 5 minutes, the cadence of overdue notifications, in ms
NotificationPeriodMillis == notification_period_len * MillisPerMinute

\* Duration::from_secs(25 * 60): the length used when no period is current
FallbackPeriodLength == 25 * 60 * MillisPerSec

\* the list App::create builds before it tries to load
DefaultPeriods ==
    << [name |-> "Focus",       duration |-> 25 * 60 * MillisPerSec],
       [name |-> "Small break", duration |-> 5 * 60 * MillisPerSec],
       [name |-> "Focus",       duration |-> 25 * 60 * MillisPerSec],
       [name |-> "Full break",  duration |-> 15 * 60 * MillisPerSec] >>

------------------------------------------------------------------------------
(* Bounds of the model *)

\* ticks processed per session under Spec and SpecMono
MaxSessionTicks == 3

\* seconds of overdue time a session of SpecOnTime is followed for
MaxOverdueSecs == 620

\* ticks processed per session under SpecEdit
MaxEditTicks == 2

\* the longest period, in minutes, that an edit under SpecEdit produces
MaxEditedMinutes == 5

------------------------------------------------------------------------------
(* Persistence: App::save_periods / App::load_periods *)

\* serde_json of Vec<Period>: a Duration is written as {secs, nanos}
Serialize(ps) ==
    [i \in 1..Len(ps) |->
        [name  |-> ps[i].name,
         secs  |-> ps[i].duration \div MillisPerSec,
         nanos |-> (ps[i].duration % MillisPerSec) * 1000000]]

Deserialize(c) ==
    [i \in 1..Len(c) |->
        [name     |-> c[i].name,
         duration |-> c[i].secs * MillisPerSec + c[i].nanos \div 1000000]]

\* storage.avail: window() and local_storage() both give a storage
\* storage.writable: storage.set succeeds
\* storage.entry: "missing" (no key pomyu_periods), "corrupt" (a value that
\*                does not parse) or "valid" (content parses)
Storage(avail, writable, entry, content) ==
    [avail |-> avail, writable |-> writable, entry |-> entry, content |-> content]

\* Ok(list) is <<list>>, Err is <<>>
load_periods(st) ==
    IF st.avail /\ st.entry = "valid" THEN Some(Deserialize(st.content)) ELSE None

\* the storage after save_periods; an Err leaves it as it was
save_periods(st, ps) ==
    IF st.avail /\ st.writable
    THEN Storage(TRUE, TRUE, "valid", Serialize(ps))
    ELSE st

\* the state App::create leaves, for a given storage
Created(st) ==
    /\ storage = st
    /\ periods = (IF load_periods(st) = None THEN DefaultPeriods ELSE load_periods(st)[1])
    /\ interval = None
    /\ progress = None
    /\ current_period = 0
    /\ timers = 0
    /\ faulted = FALSE
    /\ now = 0
    /\ last = "create"
    /\ before = None
    /\ emitted = <<>>
    /\ notified = <<>>
    /\ sessionTicks = 0
    /\ segStart = 0
    /\ segTicks = 0
    /\ ran = 0

------------------------------------------------------------------------------
(* Helpers of App *)

get_current_period_length ==
    IF current_period < Len(periods)
    THEN periods[current_period + 1].duration
    ELSE FallbackPeriodLength

\* (x as u64) of an integral f64: negative values saturate to 0
AsU64(x) == IF x < 0 THEN 0 ELSE x

\* update_progress without the accumulated floor: the wall clock alone
update_progress_no_floor(prog, expected_millisecond_update, tick_count, tick_start, time_now) ==
    [progress   |-> AsU64(time_now - tick_start),
     tick_count |-> tick_count + 1]

\* update_progress without the wall clock: the accumulated value alone
update_progress_no_wall_clock(prog, expected_millisecond_update, tick_count, tick_start, time_now) ==
    [progress   |-> prog + expected_millisecond_update,
     tick_count |-> tick_count + 1]

\* update_progress: the new *progress and the new *tick_count
update_progress(prog, expected_millisecond_update, tick_count, tick_start, time_now) ==
    LET update == expected_millisecond_update
        new_progress == AsU64(time_now - tick_start)
    IN  [progress   |-> Max(new_progress, prog + update),
         tick_count |-> tick_count + 1]

\* the name App::notify puts in the message
period_name ==
    IF current_period < Len(periods)
    THEN periods[current_period + 1].name
    ELSE "Work"

\* note_message with > for >=: exactly 5 minutes over still reads "is over"
note_message_strict(name, over_millis) ==
    IF over_millis > NotificationPeriodMillis
    THEN name \o " has been over for "
              \o ToString(over_millis \div MillisPerMinute) \o " minutes"
    ELSE name \o " is over"

\* note_message of App::notify; over_millis is -minutes_left_now in ms, so
\* notification_periods_since_over = over_millis / NotificationPeriodMillis
note_message(name, over_millis) ==
    IF over_millis >= NotificationPeriodMillis
    THEN name \o " has been over for "
              \o ToString(over_millis \div MillisPerMinute) \o " minutes"
    ELSE name \o " is over"

\* notifications with the quotients truncated toward zero instead of floored
notifications_trunc(len, prog_before, prog_now, name) ==
    LET Trunc(x) == IF x < 0 THEN -((-x) \div NotificationPeriodMillis)
                    ELSE x \div NotificationPeriodMillis
        minutes_left_before == len - prog_before
        minutes_left_now    == len - prog_now
    IN  IF minutes_left_now <= 0 /\ Trunc(-minutes_left_now) > Trunc(-minutes_left_before)
        THEN << [title |-> "Done!", body |-> note_message(name, -minutes_left_now)] >>
        ELSE <<>>

\* notifications without the comparison of the floors: every overdue tick
notifications_every_tick(len, prog_before, prog_now, name) ==
    LET minutes_left_now == len - prog_now
    IN  IF minutes_left_now <= 0
        THEN << [title |-> "Done!", body |-> note_message(name, -minutes_left_now)] >>
        ELSE <<>>

\* The part of App::notify after update_progress: the notifications created
\* for a period of length len when progress went from prog_before to prog_now.
\* minutes_left_* are kept in ms; \div is the floor of the quotient.
notifications(len, prog_before, prog_now, name) ==
    LET minutes_left_before == len - prog_before
        minutes_left_now    == len - prog_now
    IN  IF minutes_left_now <= 0
        THEN LET notification_periods_since_over == -minutes_left_now
                 notification_periods_before     == -minutes_left_before
             IN  IF notification_periods_since_over \div NotificationPeriodMillis
                        > notification_periods_before \div NotificationPeriodMillis
                 THEN << [title |-> "Done!",
                          body  |-> note_message(name, notification_periods_since_over)] >>
                 ELSE <<>>
        ELSE <<>>

\* boundary index floor(overdue time / 5 min) of a progress value
BoundaryIndex(len, prog) == (prog - len) \div NotificationPeriodMillis

------------------------------------------------------------------------------
(* App::update, one operator per message.  t is the wall clock the handler   *)
(* would read.  None of them constrains ran': the specifications below do.   *)

\* what every handler leaves in the history variables
Handled(msg, t) ==
    /\ now' = t
    /\ last' = msg
    /\ before' = progress
    /\ segStart' = IF msg \in {"Start", "Resume"} THEN t ELSE segStart

\* Drop of the Interval that App.interval holds, if any: clearInterval
dropped_interval == IF interval = None THEN timers ELSE timers - 1

\* next_period without the modulo
next_period_unwrapped(current, len) == current + 1

\* Msg::Finish: current_period += 1; current_period %= usize::max(1, len)
next_period(current, len) == (current + 1) % Max(1, len)

\* current_period after k Finish messages in a row
RECURSIVE Finishes(_, _, _)
Finishes(current, len, k) ==
    IF k = 0 THEN current ELSE Finishes(next_period(current, len), len, k - 1)

\* new_interval without the clock reading
new_interval_unanchored(t) == Some([tick_count |-> 0, tick_start |-> 0])

\* Msg::Resume builds a new Interval: tick_count 0, tick_start = get_utc_millis()
new_interval(t) == Some([tick_count |-> 0, tick_start |-> t])

\* Msg::Start: self.update(ctx, Msg::Resume), then progress = Some(ZERO)
Start(t) ==
    /\ ~faulted
    /\ interval' = new_interval(t)
    /\ timers' = dropped_interval + 1
    /\ segTicks' = 0
    /\ progress' = Some(0)
    /\ emitted' = <<>>
    /\ notified' = <<>>
    /\ sessionTicks' = 0
    /\ Handled("Start", t)
    /\ UNCHANGED <<periods, current_period, storage, faulted>>

Resume(t) ==
    /\ ~faulted
    /\ interval' = new_interval(t)
    /\ timers' = dropped_interval + 1
    /\ segTicks' = 0
    /\ emitted' = <<>>
    /\ Handled("Resume", t)
    /\ UNCHANGED <<progress, periods, current_period, storage, faulted,
                   notified, sessionTicks>>

\* Reset that also moves to the next period, as Finish does
Reset_advances(t) ==
    /\ ~faulted
    /\ interval' = None
    /\ timers' = dropped_interval
    /\ segTicks' = 0
    /\ progress' = None
    /\ current_period' = next_period(current_period, Len(periods))
    /\ emitted' = <<>>
    /\ notified' = <<>>
    /\ sessionTicks' = 0
    /\ Handled("Reset", t)
    /\ UNCHANGED <<periods, storage, faulted>>

\* Msg::Reset: self.reset()
Reset(t) ==
    /\ ~faulted
    /\ interval' = None
    /\ timers' = dropped_interval
    /\ segTicks' = 0
    /\ progress' = None
    /\ emitted' = <<>>
    /\ notified' = <<>>
    /\ sessionTicks' = 0
    /\ Handled("Reset", t)
    /\ UNCHANGED <<periods, current_period, storage, faulted>>

\* Pause that leaves App.interval, and so the browser timer, in place
Pause_keeps_interval(t) ==
    /\ ~faulted
    /\ emitted' = <<>>
    /\ Handled("Pause", t)
    /\ UNCHANGED <<interval, timers, segTicks, progress, periods, current_period,
                   storage, faulted, notified, sessionTicks>>

\* Msg::Pause: self.interval = None
Pause(t) ==
    /\ ~faulted
    /\ interval' = None
    /\ timers' = dropped_interval
    /\ segTicks' = 0
    /\ emitted' = <<>>
    /\ Handled("Pause", t)
    /\ UNCHANGED <<progress, periods, current_period, storage, faulted,
                   notified, sessionTicks>>

\* Msg::Finish: self.reset(), then the next period, modulo max(1, len)
Finish(t) ==
    /\ ~faulted
    /\ interval' = None
    /\ timers' = dropped_interval
    /\ segTicks' = 0
    /\ progress' = None
    /\ current_period' = next_period(current_period, Len(periods))
    /\ emitted' = <<>>
    /\ notified' = <<>>
    /\ sessionTicks' = 0
    /\ Handled("Finish", t)
    /\ UNCHANGED <<periods, storage, faulted>>

\* Msg::Tick(milliseconds): self.notify(milliseconds)
\*   no session            : nothing happens
\*   a session, no interval: .expect() panics
\*   otherwise             : update_progress, then at most one notification
Tick(milliseconds, t) ==
    /\ ~faulted
    /\ Handled("Tick", t)
    /\ UNCHANGED <<periods, current_period, storage, timers>>
    /\ IF progress = None
       THEN /\ emitted' = <<>>
            /\ UNCHANGED <<interval, progress, faulted, notified, sessionTicks,
                           segTicks>>
       ELSE IF interval = None
       THEN /\ faulted' = TRUE
            /\ emitted' = <<>>
            /\ UNCHANGED <<interval, progress, notified, sessionTicks, segTicks>>
       ELSE LET current_period_length == get_current_period_length
                prog == progress[1]
                tick_count == interval[1].tick_count
                tick_start == interval[1].tick_start
                upd == update_progress(prog, milliseconds, tick_count, tick_start, t)
                notes == notifications(current_period_length, prog, upd.progress,
                                       period_name)
            IN  /\ progress' = Some(upd.progress)
                /\ interval' = Some([tick_count |-> upd.tick_count,
                                     tick_start |-> tick_start])
                /\ emitted' = notes
                /\ notified' = IF notes = <<>> THEN notified
                               ELSE Append(notified,
                                      BoundaryIndex(current_period_length, upd.progress))
                /\ sessionTicks' = sessionTicks + 1
                /\ segTicks' = segTicks + 1
                /\ UNCHANGED faulted

\* an edit that is kept only when save_periods succeeds
Edit_commit_on_save(msg, new_periods, t) ==
    /\ ~faulted
    /\ periods' = (IF storage.avail /\ storage.writable THEN new_periods ELSE periods)
    /\ storage' = save_periods(storage, new_periods)
    /\ emitted' = <<>>
    /\ Handled(msg, t)
    /\ UNCHANGED <<interval, progress, current_period, timers, faulted, notified,
                   sessionTicks, segTicks>>

\* what the three edit handlers share after the edit: save_periods
Edit(msg, new_periods, t) ==
    /\ ~faulted
    /\ periods' = new_periods
    /\ storage' = save_periods(storage, new_periods)
    /\ emitted' = <<>>
    /\ Handled(msg, t)
    /\ UNCHANGED <<interval, progress, current_period, timers, faulted, notified,
                   sessionTicks, segTicks>>

\* if let Some(period) = self.periods.get_mut(period_number)
UpdateName(period_number, new_name, t) ==
    Edit("UpdateName",
         IF period_number < Len(periods)
         THEN [periods EXCEPT ![period_number + 1].name = new_name]
         ELSE periods,
         t)

\* subtract the existing whole minutes, add the new minutes
UpdateMinutes(period_number, minutes, t) ==
    Edit("UpdateMinutes",
         IF period_number < Len(periods)
         THEN [periods EXCEPT ![period_number + 1].duration =
                  (@ - MillisPerMinute * (@ \div MillisPerMinute))
                  + minutes * MillisPerMinute]
         ELSE periods,
         t)

\* round down to the minute (whole seconds), add the new seconds
UpdateSeconds(period_number, seconds, t) ==
    Edit("UpdateSeconds",
         IF period_number < Len(periods)
         THEN [periods EXCEPT ![period_number + 1].duration =
                  MillisPerMinute * (@ \div MillisPerMinute)
                  + seconds * MillisPerSec]
         ELSE periods,
         t)

\* center_button_msg with Start and Resume exchanged
center_button_msg_swapped ==
    IF progress # None
    THEN IF interval # None
         THEN IF progress[1] >= get_current_period_length THEN "Finish" ELSE "Pause"
         ELSE "Start"
    ELSE "Resume"

\* center_button_msg of App::view: the message the centre button sends
center_button_msg ==
    IF progress # None
    THEN IF interval # None
         THEN IF progress[1] >= get_current_period_length THEN "Finish" ELSE "Pause"
         ELSE "Resume"
    ELSE "Start"

\* <button disabled={self.progress.is_none()}> Reset
reset_enabled == progress # None

\* the states of the period-cycle state machine
Idle    == progress = None
Running == progress # None /\ interval # None
Paused  == progress # None /\ interval = None

------------------------------------------------------------------------------
(* Spec: every button message in every state, ticks while a timer exists,    *)
(* arbitrary wall-clock readings (the clock may jump either way).  The       *)
(* period list is the one App::create leaves and is not edited.              *)

ClockReadings == {0, 1000, 60000, 300000, 390000, 600000, 1500000, 1890000}

\* what the browser's storage may hold when the application starts
StoredLists ==
    { <<>>,
      << [name |-> "Focus", duration |-> 0] >>,
      << [name |-> "Focus", duration |-> 60000],
         [name |-> "Rest",  duration |-> 0] >> }

Init ==
    \/ Created(Storage(TRUE, TRUE, "missing", <<>>))
    \/ \E ps \in StoredLists : Created(Storage(TRUE, TRUE, "valid", Serialize(ps)))

DoStart  == \E t \in ClockReadings : Start(t) /\ UNCHANGED ran
DoResume == \E t \in ClockReadings : Resume(t) /\ UNCHANGED ran
\* these handlers do not read the clock: now stays at the latest reading
DoPause  == Pause(now) /\ UNCHANGED ran
DoReset  == Reset(now) /\ UNCHANGED ran
DoFinish == Finish(now) /\ UNCHANGED ran

\* the Interval's callback: it runs only while the browser timer is live
DoTick ==
    /\ timers > 0
    /\ sessionTicks < MaxSessionTicks
    /\ \E t \in ClockReadings : Tick(TICK_INTERVAL, t) /\ UNCHANGED ran

Next == DoStart \/ DoResume \/ DoPause \/ DoReset \/ DoFinish \/ DoTick

Spec == Init /\ [][Next]_vars

------------------------------------------------------------------------------
(* SpecMono: one session driven through the centre button (Start when idle,  *)
(* Pause when running, Resume when paused) and the timer, with a wall clock  *)
(* that never moves backward.  ran accumulates the wall-clock time of the    *)
(* run segments that have ended.                                             *)

MonoReadings == {r \in ClockReadings : r >= now}

MonoStart ==
    /\ Idle
    /\ \E t \in MonoReadings : Start(t) /\ ran' = 0

MonoPause ==
    /\ Running
    /\ \E t \in MonoReadings : Pause(t) /\ ran' = ran + (t - segStart)

MonoResume ==
    /\ Paused
    /\ \E t \in MonoReadings : Resume(t) /\ UNCHANGED ran

MonoTick ==
    /\ Running
    /\ sessionTicks < MaxSessionTicks
    /\ \E t \in MonoReadings : Tick(TICK_INTERVAL, t) /\ UNCHANGED ran

NextMono == MonoStart \/ MonoPause \/ MonoResume \/ MonoTick

SpecMono == Init /\ [][NextMono]_vars

------------------------------------------------------------------------------
(* SpecOnTime: one session, never paused, whose ticks are all on time or     *)
(* late by the clock: the reading at a tick is never ahead of the value the  *)
(* tick accumulates to.                                                      *)

\* how far the reading is behind the accumulated value, in ms
TickLags == {0, 1, 2500}

OnTimeLists ==
    { << [name |-> "Focus", duration |-> 1000] >>,
      << [name |-> "Focus", duration |-> 299000] >> }

InitOnTime ==
    \/ Created(Storage(TRUE, TRUE, "missing", <<>>))
    \/ \E ps \in OnTimeLists : Created(Storage(TRUE, TRUE, "valid", Serialize(ps)))

OnTimeStart ==
    /\ Idle
    /\ \E t \in {0, 5000} : Start(t) /\ UNCHANGED ran

OnTimeTick ==
    /\ Running
    /\ progress[1] < get_current_period_length + MaxOverdueSecs * MillisPerSec
    /\ \E lag \in TickLags :
          /\ Tick(TICK_INTERVAL,
                  interval[1].tick_start + progress[1] + TICK_INTERVAL - lag)
          /\ UNCHANGED ran

NextOnTime == OnTimeStart \/ OnTimeTick

SpecOnTime == InitOnTime /\ [][NextOnTime]_vars

------------------------------------------------------------------------------
(* SpecEdit: Spec with the period editor: every message in every state.      *)

EditReadings == {0, 60000, 300000}

EditNames == {"Focus", "Nap"}

EditMinutes == {0, 5}

EditSeconds == {0, 30, 60}

\* index of the first period, and the first index past the list
EditIndexes == {0, Len(periods)}

\* a stored list, in a storage that accepts writes or refuses them
InitEdit ==
    \E w \in BOOLEAN :
        Created(Storage(TRUE, w, "valid",
                        Serialize(<< [name |-> "Focus", duration |-> 60000],
                                     [name |-> "Rest",  duration |-> 0] >>)))

EditStart  == \E t \in EditReadings : Start(t) /\ UNCHANGED ran
EditResume == \E t \in EditReadings : Resume(t) /\ UNCHANGED ran
EditPause  == Pause(now) /\ UNCHANGED ran
EditReset  == Reset(now) /\ UNCHANGED ran
EditFinish == Finish(now) /\ UNCHANGED ran

EditTick ==
    /\ timers > 0
    /\ sessionTicks < MaxEditTicks
    /\ \E t \in EditReadings : Tick(TICK_INTERVAL, t) /\ UNCHANGED ran

\* the editor's inputs keep a period within MaxEditedMinutes
Small(ps) == \A i \in 1..Len(ps) :
                 \/ ps[i].duration <= MaxEditedMinutes * MillisPerMinute
                 \/ ps[i] = periods[i]

DoUpdateName ==
    \E i \in EditIndexes, n \in EditNames :
        UpdateName(i, n, now) /\ UNCHANGED ran

DoUpdateMinutes ==
    \E i \in EditIndexes, m \in EditMinutes :
        UpdateMinutes(i, m, now) /\ Small(periods') /\ UNCHANGED ran

DoUpdateSeconds ==
    \E i \in EditIndexes, sec \in EditSeconds :
        UpdateSeconds(i, sec, now) /\ Small(periods') /\ UNCHANGED ran

NextEdit ==
    \/ EditStart \/ EditResume \/ EditPause \/ EditReset \/ EditFinish \/ EditTick
    \/ DoUpdateName \/ DoUpdateMinutes \/ DoUpdateSeconds

SpecEdit == InitEdit /\ [][NextEdit]_vars

------------------------------------------------------------------------------
(* SpecStale: Spec, and a Tick message that is handled although no timer is  *)
(* live: one that was sent before the Interval was dropped and is handled    *)
(* after the message that dropped it.  notify reads the clock only inside    *)
(* update_progress, which such a Tick never reaches, so the last reading     *)
(* stays what it was.                                                        *)

StaleTick ==
    /\ timers = 0
    /\ Tick(TICK_INTERVAL, now)
    /\ UNCHANGED ran

NextStale == Next \/ StaleTick

SpecStale == Init /\ [][NextStale]_vars

------------------------------------------------------------------------------
(* SpecPersist: the application created over a storage that fails: no        *)
(* storage at all, no pomyu_periods key, a value that does not parse, or a   *)
(* stored list in a storage that refuses writes; then edits in Idle, Running *)
(* and Paused.                                                               *)

FailingStorages ==
    { Storage(FALSE, FALSE, "missing", <<>>),
      Storage(TRUE, TRUE, "missing", <<>>),
      Storage(TRUE, FALSE, "corrupt", <<>>),
      Storage(TRUE, FALSE, "valid",
              Serialize(<< [name |-> "Focus", duration |-> 60000] >>)) }

InitPersist == \E st \in FailingStorages : Created(st)

NextPersist ==
    \/ EditStart \/ EditPause \/ EditTick
    \/ DoUpdateName \/ DoUpdateMinutes \/ DoUpdateSeconds

SpecPersist == InitPersist /\ [][NextPersist]_vars

------------------------------------------------------------------------------
(* SpecUI: only the messages App::view offers in the state it renders: the   *)
(* centre button's message, Reset unless disabled, Skip; ticks while a timer *)
(* is live.  Arbitrary wall-clock readings, no edits.                        *)

UIStart ==
    /\ center_button_msg = "Start"
    /\ \E t \in ClockReadings : Start(t) /\ UNCHANGED ran

UIResume ==
    /\ center_button_msg = "Resume"
    /\ \E t \in ClockReadings : Resume(t) /\ UNCHANGED ran

UIPause ==
    /\ center_button_msg = "Pause"
    /\ Pause(now) /\ UNCHANGED ran

UIFinish ==
    /\ center_button_msg = "Finish"
    /\ Finish(now) /\ UNCHANGED ran

UIReset ==
    /\ reset_enabled
    /\ Reset(now) /\ UNCHANGED ran

UISkip == Finish(now) /\ UNCHANGED ran

UITick ==
    /\ timers > 0
    /\ sessionTicks < MaxSessionTicks
    /\ \E t \in ClockReadings : Tick(TICK_INTERVAL, t) /\ UNCHANGED ran

NextUI ==
    \/ UIStart \/ UIResume \/ UIPause \/ UIFinish \/ UIReset \/ UISkip \/ UITick

SpecUI == Init /\ [][NextUI]_vars

------------------------------------------------------------------------------
(* Properties *)

\* the latest message was a Tick that found a session and a timer
TickProcessed == last = "Tick" /\ before # None /\ progress # None /\ interval # None

\* C1 (SpecEdit): within a session elapsed never decreases: whatever message
\* other than Start was handled last, and whatever the clock read, a session
\* that existed before the handler and exists after it has progress >= the
\* progress it had before.
C1_MonotonicElapsed ==
    (last # "Start" /\ before # None /\ progress # None)
        => progress[1] >= before[1]

\* a Tick whose clock reading is before the run's start instant, after an
\* earlier tick, in a session whose period has been edited
C1_Witness ==
    /\ TickProcessed
    /\ now < interval[1].tick_start
    /\ before[1] > 0
    /\ progress[1] > before[1]
    /\ periods[1].duration = 30000

\* C2 (SpecOnTime): with on-time 1000 ms ticks, no pause and no edit, a tick
\* emits exactly one notification when the resulting elapsed is L + k * 300 s
\* for some k >= 0, and none otherwise.
C2_OnTimeNotifications ==
    TickProcessed =>
        LET len == get_current_period_length
            onBoundary == /\ progress[1] >= len
                          /\ (progress[1] - len) % (300 * MillisPerSec) = 0
        IN  Len(emitted) = (IF onBoundary THEN 1 ELSE 0)

\* the 25-minute period, 2100 s elapsed: the third notification
C2_Witness ==
    /\ TickProcessed
    /\ get_current_period_length = 1500 * MillisPerSec
    /\ progress[1] = 2100 * MillisPerSec
    /\ Len(emitted) = 1
    /\ notified = <<0, 1, 2>>

\* C3 (Spec): in a session whose period length does not change, no boundary
\* index is notified twice, however the ticks and the clock behave and
\* however often the session is paused and resumed.
C3_AtMostOncePerBoundary ==
    \A i, j \in 1..Len(notified) : i # j => notified[i] # notified[j]

\* after a Pause and a Resume, a tick that lands in the 5-minute window that
\* was notified last, and emits nothing
C3_Witness ==
    /\ TickProcessed
    /\ emitted = <<>>
    /\ interval[1].tick_count = 1
    /\ sessionTicks >= 2
    /\ notified # <<>>
    /\ BoundaryIndex(get_current_period_length, progress[1])
           = notified[Len(notified)]
    /\ BoundaryIndex(get_current_period_length, before[1])
           = notified[Len(notified)]

\* C4 (Spec): a processed Tick emits exactly one notification if
\* a >= L and floor((a - L) / 5 min) is above the index before, where the
\* index before is floor((b - L) / 5 min) when b >= L and minus infinity when
\* b < L; otherwise it emits none.
C4_GateDecision ==
    TickProcessed =>
        LET len == get_current_period_length
            b == before[1]
            a == progress[1]
            fire == /\ a >= len
                    /\ \/ b < len
                       \/ (a - len) \div NotificationPeriodMillis
                              > (b - len) \div NotificationPeriodMillis
        IN  Len(emitted) = (IF fire THEN 1 ELSE 0)

\* one tick that takes elapsed from below L to more than two boundaries past
\* it emits one notification
C4_Witness ==
    /\ TickProcessed
    /\ before[1] > 0
    /\ before[1] < get_current_period_length
    /\ progress[1] >= get_current_period_length + 2 * NotificationPeriodMillis
    /\ Len(emitted) = 1

\* C5 (Spec): in a session without period edits there is no Running state in
\* which elapsed exceeds the current period length and no notification has
\* been emitted in the session, for every period length L >= 0.
C5_NotifiedOnceExceeded ==
    (Running /\ progress[1] > get_current_period_length) => notified # <<>>

\* C6 (Spec): after a processed Tick, elapsed >= the wall-clock reading at the
\* tick minus the wall-clock reading at which the current run segment began.
C6_NoStall ==
    TickProcessed => progress[1] >= now - segStart

\* the first tick of a segment arrives late: the wall clock advanced by more
\* than the nominal tick length, and elapsed follows the wall clock
C6_Witness ==
    /\ TickProcessed
    /\ interval[1].tick_count = 1
    /\ now - segStart > TICK_INTERVAL
    /\ before[1] + TICK_INTERVAL < now - segStart
    /\ progress[1] = now - segStart

\* C7 (SpecMono): with a wall clock that never moves backward, after every
\* processed Tick elapsed >= the wall-clock time the session has spent
\* running, summed over the closed run segments and the current one.
C7_ElapsedCoversRunningTime ==
    TickProcessed => progress[1] >= ran + (now - segStart)

\* C8 (Spec): a processed Tick of nominal length t raises elapsed by at least
\* t, whatever the clock reads.
C8_FloorUnderRegression ==
    TickProcessed => progress[1] >= before[1] + TICK_INTERVAL

\* the clock reads less than it did when the run segment began, on a tick that
\* is not the segment's first; the accumulated value is the floor
C8_Witness ==
    /\ TickProcessed
    /\ interval[1].tick_count >= 2
    /\ now < segStart
    /\ progress[1] = before[1] + TICK_INTERVAL

\* C9 (SpecMono): Pause and Resume leave elapsed unchanged, and the first Tick
\* after a Resume (or Start), with e the elapsed before it and t its nominal
\* length, yields e + t <= elapsed <= max(e + t, reading at the tick - reading
\* at the Resume): the time before the Resume is not credited.
C9_PauseResumePreserves ==
    /\ last \in {"Pause", "Resume"} => progress = before
    /\ (TickProcessed /\ interval[1].tick_count = 1) =>
          /\ progress[1] >= before[1] + TICK_INTERVAL
          /\ progress[1] <= Max(before[1] + TICK_INTERVAL, now - segStart)

\* a session that was ticked, paused and resumed: the first tick after the
\* Resume comes after the Resume by the clock and adds the nominal tick
\* length only, although the clock is far past what the session has run
C9_Witness ==
    /\ TickProcessed
    /\ interval[1].tick_count = 1
    /\ sessionTicks >= 2
    /\ before[1] > 0
    /\ ran > 0
    /\ segStart - ran >= NotificationPeriodMillis
    /\ now > segStart
    /\ progress[1] = before[1] + TICK_INTERVAL

\* C10 (Spec), as claimed: every notification has title "Done!" and, with k
\* the boundary index of the resulting elapsed, body "{name} is over" when
\* k * 5 < 1 and "{name} has been over for {k * 5} minutes" otherwise.
C10_BodyNamesBoundary ==
    \A i \in 1..Len(emitted) :
        LET k == BoundaryIndex(get_current_period_length, progress[1])
        IN  /\ emitted[i].title = "Done!"
            /\ emitted[i].body =
                  (IF k * 5 < 1
                   THEN period_name \o " is over"
                   ELSE period_name \o " has been over for "
                            \o ToString(k * 5) \o " minutes")

\* C10 (Spec), amended: every notification has title "Done!" and body
\* "{name} is over" when k = 0, "{name} has been over for {m} minutes"
\* otherwise, m being the whole minutes of overdue time at the tick; m is
\* k * 5 when the tick lands less than a minute past the boundary.
C10_BodyNamesWholeMinutes ==
    \A i \in 1..Len(emitted) :
        LET over == progress[1] - get_current_period_length
            k == over \div (5 * 60 * MillisPerSec)
            m == over \div (60 * MillisPerSec)
        IN  /\ emitted[i].title = "Done!"
            /\ emitted[i].body =
                  (IF k = 0
                   THEN period_name \o " is over"
                   ELSE period_name \o " has been over for "
                            \o ToString(m) \o " minutes")
            /\ over - k * (5 * 60 * MillisPerSec) < 60 * MillisPerSec => m = k * 5

\* a delayed tick lands 6.5 minutes past the period's end
C10_Witness ==
    /\ TickProcessed
    /\ Len(emitted) = 1
    /\ progress[1] - get_current_period_length = 390000
    /\ emitted[1].body = "Focus has been over for 6 minutes"

\* C11 (Spec): Finish sets current_period to (current_period + 1) mod
\* max(1, n) and does not fault, n being the number of periods; in every
\* state current_period < max(1, n), n Finish messages in a row would bring
\* current_period back to its value, and with n = 0 it stays 0.
C11_CycleWrap ==
    /\ [](LET n == Len(periods)
          IN  /\ current_period < (IF n > 1 THEN n ELSE 1)
              /\ Finishes(current_period, n, n) = current_period
              /\ n = 0 => current_period = 0)
    /\ [][last' = "Finish" =>
            /\ current_period' =
                  (current_period + 1) % (IF Len(periods) > 1 THEN Len(periods) ELSE 1)
            /\ ~faulted']_vars

\* a Finish on the last of four periods wrapped to the first
C11_Witness ==
    /\ last = "Finish"
    /\ Len(periods) = 4
    /\ current_period = 0

\* C12 (Spec): at most one tick timer is live, and it is the one
\* App.interval holds; after Pause, Reset or Finish none is live; after Start
\* or Resume exactly one is, with tick_count 0 and tick_start the wall-clock
\* reading of that message; while Running tick_count is the number of Ticks
\* processed since the latest Start or Resume.
C12_TimerLifecycle ==
    /\ timers <= 1
    /\ timers = (IF interval = None THEN 0 ELSE 1)
    /\ last \in {"Pause", "Reset", "Finish"} => (interval = None /\ timers = 0)
    /\ last \in {"Start", "Resume"} =>
          /\ timers = 1
          /\ interval = << [tick_count |-> 0, tick_start |-> now] >>
    /\ Running => interval[1].tick_count = segTicks

\* a session resumed after its first tick and ticked twice since
C12_Witness ==
    /\ TickProcessed
    /\ sessionTicks = 3
    /\ interval[1].tick_count = 2
    /\ interval[1].tick_start = segStart
    /\ timers = 1

\* C13 (Spec): Reset, from any state, leaves no session and no timer and
\* keeps current_period and the period list; Finish, from any state, leaves no
\* session and no timer; Start leaves a running session with elapsed 0 and
\* keeps current_period and the period list.
C13_Transitions ==
    [][/\ last' = "Reset" =>
            /\ progress' = None
            /\ interval' = None
            /\ timers' = 0
            /\ current_period' = current_period
            /\ periods' = periods
       /\ last' = "Finish" =>
            /\ progress' = None
            /\ interval' = None
            /\ timers' = 0
       /\ last' = "Start" =>
            /\ progress' = Some(0)
            /\ interval' # None
            /\ timers' = 1
            /\ current_period' = current_period
            /\ periods' = periods]_vars

\* a Reset of a session of the second period: idle, still the second period
C13_Witness ==
    /\ last = "Reset"
    /\ before # None
    /\ before[1] > 0
    /\ Idle
    /\ timers = 0
    /\ current_period = 1

\* C14 (SpecStale): a Tick handled in a state that is not Running (no
\* session, or a session without a timer) does not fault, emits nothing, and
\* leaves elapsed, current_period and the period list as they were.
C14_StaleTickHarmless ==
    [][(last' = "Tick" /\ ~Running) =>
            /\ ~faulted'
            /\ emitted' = <<>>
            /\ progress' = progress
            /\ current_period' = current_period
            /\ periods' = periods]_vars

\* C15 (SpecPersist): when load_periods fails (no storage, no pomyu_periods
\* key, a value that does not parse) the application is created Idle with the
\* built-in period list and current_period = 0; an edit whose save fails is
\* still applied to the period list, does not fault, and leaves the storage,
\* elapsed, the timer and current_period as they were.
C15_PersistenceFailuresNonFatal ==
    /\ []((last = "create" /\ (~storage.avail \/ storage.entry \in {"missing", "corrupt"}))
            => /\ periods = DefaultPeriods
               /\ Idle /\ interval = None /\ timers = 0
               /\ current_period = 0
               /\ ~faulted)
    /\ [][(/\ last' \in {"UpdateName", "UpdateMinutes", "UpdateSeconds"}
           /\ ~(storage.avail /\ storage.writable)) =>
            \A i \in EditIndexes :
                /\ \A n \in EditNames :
                       UpdateName(i, n, now) =>
                           (i < Len(periods) => periods'[i + 1].name = n)
                /\ \A m \in EditMinutes :
                       UpdateMinutes(i, m, now) =>
                           (i < Len(periods) =>
                               periods'[i + 1].duration \div MillisPerMinute = m)
                /\ \A sec \in EditSeconds :
                       UpdateSeconds(i, sec, now) =>
                           (i < Len(periods) =>
                               periods'[i + 1].duration =
                                   MillisPerMinute * (periods[i + 1].duration \div MillisPerMinute)
                                   + sec * MillisPerSec)
                /\ ~faulted'
                /\ storage' = storage
                /\ progress' = progress
                /\ interval' = interval
                /\ timers' = timers
                /\ current_period' = current_period]_vars

\* the minutes and then the seconds of the first built-in period edited while
\* Running, over a storage that does not exist
C15_Witness ==
    /\ last = "UpdateSeconds"
    /\ ~storage.avail
    /\ Running
    /\ periods[1].duration = 30 * MillisPerSec
    /\ Tail(periods) = Tail(DefaultPeriods)

\* C16 (SpecEdit): in one session, whatever edits of the period length are
\* interleaved with the ticks, the notification for boundary index 0 ("is
\* over") is emitted at most once.
C16_FirstNotificationOnce ==
    Cardinality({i \in 1..Len(notified) : notified[i] = 0}) <= 1

\* C17 (SpecUI): the centre button offers Start iff there is no session,
\* Resume iff there is a session without a timer handle, Pause iff Running
\* with elapsed below the current period length, Finish iff Running with
\* elapsed at or above it; Reset is enabled iff a session exists.  Under the
\* offered messages and ticks of a live timer, a timer handle exists only
\* with a session, and every Tick is handled with both present, without fault.
C17_OfferedActionsConsistent ==
    /\ center_button_msg = "Start" <=> Idle
    /\ center_button_msg = "Resume" <=> Paused
    /\ center_button_msg = "Pause" <=>
           (Running /\ progress[1] < get_current_period_length)
    /\ center_button_msg = "Finish" <=>
           (Running /\ progress[1] >= get_current_period_length)
    /\ reset_enabled <=> ~Idle
    /\ interval # None => progress # None
    /\ timers > 0 => interval # None
    /\ last = "Tick" => (before # None /\ interval # None)
    /\ ~faulted

\* a tick handled after a pause and a resume, leaving the period finished
C17_Witness ==
    /\ TickProcessed
    /\ sessionTicks = 2
    /\ segTicks = 1
    /\ center_button_msg = "Finish"

\* C18 (SpecEdit): UpdateMinutes(i, m) on an existing period makes its
\* whole-minute part m and keeps its seconds part; UpdateSeconds(i, s), for
\* every s the seconds input allows (0..60), makes its seconds part s and keeps
\* its whole-minute part; UpdateName changes the name only; an index outside
\* the list changes no period; and no edit changes elapsed, the timer handle,
\* its tick count, current_period or any other period.
C18_EditsChangeOnlyAddressedField ==
    [][last' \in {"UpdateName", "UpdateMinutes", "UpdateSeconds"} =>
        \A i \in EditIndexes :
            LET Frame == /\ progress' = progress
                         /\ interval' = interval
                         /\ timers' = timers
                         /\ current_period' = current_period
                         /\ Len(periods') = Len(periods)
                         /\ \A j \in 1..Len(periods) :
                                j # i + 1 => periods'[j] = periods[j]
                old == periods[i + 1]
                new == periods'[i + 1]
            IN  /\ \A m \in EditMinutes :
                       UpdateMinutes(i, m, now) =>
                           /\ Frame
                           /\ i < Len(periods) =>
                                  /\ new.duration \div MillisPerMinute = m
                                  /\ new.duration % MillisPerMinute =
                                         old.duration % MillisPerMinute
                                  /\ new.name = old.name
                /\ \A sec \in EditSeconds :
                       UpdateSeconds(i, sec, now) =>
                           /\ Frame
                           /\ i < Len(periods) =>
                                  /\ new.duration % MillisPerMinute = sec * MillisPerSec
                                  /\ new.duration \div MillisPerMinute =
                                         old.duration \div MillisPerMinute
                                  /\ new.name = old.name
                /\ \A n \in EditNames :
                       UpdateName(i, n, now) =>
                           /\ Frame
                           /\ i < Len(periods) =>
                                  /\ new.name = n
                                  /\ new.duration = old.duration]_vars

====
